---------------------------- MODULE Spec2Model ----------------------------
(***************************************************************************)
(* Model of the Nuxt dev-server monitor (menu-bar command).                *)
(*                                                                         *)
(* Strings are sequences of one-character strings, so that the substring, *)
(* split, trim, lower-casing and regular-expression steps of the source   *)
(* are computed, not assumed.  A text (the output of a shell command) is  *)
(* the sequence of its lines.  An optional value is None or Some(v).      *)
(***************************************************************************)
EXTENDS Integers, Sequences, FiniteSets, TLC

\* ------------------------------------------------------------------------
\* Bounds of the model
\* ------------------------------------------------------------------------
MaxLsofLines == 2    \* rows of a port scan below its title row
MaxPsLines == 1
MaxCalls == 3
MaxHandlers == 1     \* menu action handlers that wait at an await at one time

\* ------------------------------------------------------------------------
\* Optional values (undefined / a value)
\* ------------------------------------------------------------------------
None == [some |-> FALSE]
Some(v) == [some |-> TRUE, val |-> v]

\* ------------------------------------------------------------------------
\* String primitives (JavaScript String methods used by the source)
\* ------------------------------------------------------------------------
Min(S) == CHOOSE x \in S : \A y \in S : x <= y
Max(S) == CHOOSE x \in S : \A y \in S : x >= y

\* Characters are those a string of this module can hold, U+0000 to U+00FF.
\* The line terminators of JavaScript among them: LF and CR
IsLineTerminator(c) == c \in {"\n", "\r"}

\* the class \s, which is also what trim() removes: space, tab, LF, CR, FF,
\* and in the second set VT (U+000B) and the no-break space (U+00A0)
IsWs(c) ==
    \/ c \in {" ", "\t", "\n", "\r", "\f"}
    \/ c \in {"", " "}
IsDigit(c) == c \in {"0", "1", "2", "3", "4", "5", "6", "7", "8", "9"}

\* s.substring(i-1): the characters of s from position i (1-based) on
From(s, i) == SubSeq(s, i, Len(s))

\* the literal lit occurs in s at position i
MatchAt(s, i, lit) ==
    /\ i >= 1
    /\ i + Len(lit) - 1 <= Len(s)
    /\ SubSeq(s, i, i + Len(lit) - 1) = lit

\* s.includes(sub)
Includes(s, sub) == \E i \in 1..(Len(s) + 1) : MatchAt(s, i, sub)

\* s.startsWith(pre)
StartsWith(s, pre) == MatchAt(s, 1, pre)

UpperLetters == <<
    "A", "B", "C", "D", "E", "F", "G", "H", "I", "J", "K", "L", "M", "N", "O", "P", "Q",
    "R", "S", "T", "U", "V", "W", "X", "Y", "Z", "À", "Á", "Â", "Ã", "Ä", "Å", "Æ", "Ç",
    "È", "É", "Ê", "Ë", "Ì", "Í", "Î", "Ï", "Ð", "Ñ", "Ò", "Ó", "Ô", "Õ", "Ö", "Ø", "Ù",
    "Ú", "Û", "Ü", "Ý", "Þ" >>
LowerLetters == <<
    "a", "b", "c", "d", "e", "f", "g", "h", "i", "j", "k", "l", "m", "n", "o", "p", "q",
    "r", "s", "t", "u", "v", "w", "x", "y", "z", "à", "á", "â", "ã", "ä", "å", "æ", "ç",
    "è", "é", "ê", "ë", "ì", "í", "î", "ï", "ð", "ñ", "ò", "ó", "ô", "õ", "ö", "ø", "ù",
    "ú", "û", "ü", "ý", "þ" >>
LowerOf == [c \in {UpperLetters[i] : i \in 1..Len(UpperLetters)} |->
               LowerLetters[CHOOSE i \in 1..Len(UpperLetters) : UpperLetters[i] = c]]
LowerChar(c) == IF c \in DOMAIN LowerOf THEN LowerOf[c] ELSE c

\* s.toLowerCase()
ToLowerCase(s) == [i \in 1..Len(s) |-> LowerChar(s[i])]

\* s.trim()
Trim(s) ==
    LET idx == {i \in 1..Len(s) : ~IsWs(s[i])}
    IN  IF idx = {} THEN <<>> ELSE SubSeq(s, Min(idx), Max(idx))

\* end (exclusive) of the run of characters satisfying the class from i on
WsRunEnd(s, i) == Min({j \in i..(Len(s) + 1) : j = Len(s) + 1 \/ ~IsWs(s[j])})
TokenEnd(s, i) == Min({j \in i..(Len(s) + 1) : j = Len(s) + 1 \/ IsWs(s[j])})
DigitRunEnd(s, i) == Min({j \in i..(Len(s) + 1) : j = Len(s) + 1 \/ ~IsDigit(s[j])})

\* s.split(/\s+/): the pieces between the maximal runs of whitespace; a
\* leading or trailing run leaves an empty piece, as in JavaScript
RECURSIVE SplitWsFrom(_, _)
SplitWsFrom(s, i) ==
    LET e == TokenEnd(s, i)
    IN  IF e > Len(s)
        THEN <<SubSeq(s, i, Len(s))>>
        ELSE <<SubSeq(s, i, e - 1)>> \o SplitWsFrom(s, WsRunEnd(s, e))
SplitWs(s) == SplitWsFrom(s, 1)

\* parts.join(sep)
RECURSIVE Join(_, _)
Join(parts, sep) ==
    IF Len(parts) = 0 THEN <<>>
    ELSE IF Len(parts) = 1 THEN parts[1]
    ELSE parts[1] \o sep \o Join(Tail(parts), sep)

\* parts.slice(n)
Slice(parts, n) == SubSeq(parts, n + 1, Len(parts))

\* ------------------------------------------------------------------------
\* Port scan + process classifier (the nuxtProcesses memo)
\* ------------------------------------------------------------------------
KwNuxt == <<"n", "u", "x", "t">>
KwNuxi == <<"n", "u", "x", "i">>
KwNitro == <<"n", "i", "t", "r", "o">>
Placeholder == <<"N", "o", "d", "e", ".", "j", "s", " ", "s", "e", "r", "v", "e", "r", " ", "o", "n", " ", "p", "o", "r", "t", " ">>
Comma == <<",">>
Space == <<" ">>

\* number of leading process-table columns dropped from the displayed command
CommandColumn == 10

\* a text is truthy in JavaScript iff it is defined and not the empty string
IsBlank(line) == Trim(line) = <<>>
TextTruthy(text) == text.some /\ text.val # <<>> /\ text.val # << <<>> >>

\* address.match(/:(\d+)/): the digits after the leftmost ':' that is
\* followed by a digit; None when there is none
DigitsAt(s, i) == SubSeq(s, i, DigitRunEnd(s, i) - 1)
PortAt(address, hits) == IF hits = {} THEN None ELSE Some(DigitsAt(address, Min(hits) + 1))
PortMatch(address) ==
    PortAt(address, {i \in 1..(Len(address) - 1) : address[i] = ":" /\ IsDigit(address[i + 1])})

\* the pid test of the classifier: psLine.includes(pid)
PidTest(psLine, pid) == Includes(psLine, pid)

\* the keyword test of the classifier on the lower-cased line
HasKeyword(psLine) ==
    LET lowerLine == ToLowerCase(psLine)
    IN  Includes(lowerLine, KwNuxt) \/ Includes(lowerLine, KwNuxi) \/ Includes(lowerLine, KwNitro)

\* psLine.split(/\s+/).slice(10).join(" ")
CommandOf(psLine) == Join(Slice(SplitWs(psLine), CommandColumn), Space)

\* the process-table lines that pass both tests for the pid
MatchingLines(psLines, pid) ==
    {k \in 1..Len(psLines) : PidTest(psLines[k], pid) /\ HasKeyword(psLines[k])}

FirstMatching(psLines, hits, port) ==
    IF hits = {}
    THEN [isNuxt |-> FALSE, command |-> Placeholder \o port]
    ELSE [isNuxt |-> TRUE, command |-> CommandOf(psLines[Min(hits)])]

\* the classifier: isNuxt and command for one port-scan candidate
Classify(psData, pid, port) ==
    IF TextTruthy(psData)
    THEN FirstMatching(psData.val, MatchingLines(psData.val, pid), port)
    ELSE [isNuxt |-> TRUE, command |-> Placeholder \o port]

Listed(pid, port, c) ==
    IF c.isNuxt THEN <<[pid |-> pid, port |-> port, command |-> c.command]>> ELSE <<>>

Candidate(pid, portMatch, psData) ==
    IF ~portMatch.some THEN <<>>
    ELSE Listed(pid, portMatch.val, Classify(psData, pid, portMatch.val))

PartsToProcess(parts, psData) ==
    IF Len(parts) < 2 THEN <<>> ELSE Candidate(parts[1], PortMatch(parts[2]), psData)

\* one line of the port scan: <<>> when the line is skipped, else the
\* one-element list holding the process it contributes
ProcessOfLine(line, psData) == PartsToProcess(SplitWs(Trim(line)), psData)

\* the loop over lsofLines; `continue` skips a line and goes on to the next
RECURSIVE MutProcessesUntilSkipped(_, _)
MutProcessesUntilSkipped(lines, psData) ==
    IF lines = <<>> \/ ProcessOfLine(Head(lines), psData) = <<>> THEN <<>>
    ELSE ProcessOfLine(Head(lines), psData) \o MutProcessesUntilSkipped(Tail(lines), psData)
RECURSIVE ProcessesFrom(_, _)
ProcessesFrom(lines, psData) ==
    IF lines = <<>> THEN <<>>
    ELSE ProcessOfLine(Head(lines), psData) \o ProcessesFrom(Tail(lines), psData)

\* the useMemo body: the matched-process list of a poll
ComputeNuxtProcesses(lsof, psData) ==
    IF ~lsof.some \/ \A k \in 1..Len(lsof.val) : IsBlank(lsof.val[k])
    THEN <<>>
    ELSE ProcessesFrom(SelectSeq(lsof.val, LAMBDA l : ~IsBlank(l)), psData)

\* nuxtProcesses.map(p => p.pid) and the set of its elements
PidList(procs) == [k \in 1..Len(procs) |-> procs[k].pid]
PidSet(procs) == {procs[k].pid : k \in 1..Len(procs)}

\* ------------------------------------------------------------------------
\* Project resolver, step 1: directory inference from the command line
\* ------------------------------------------------------------------------
LitNode == <<"n", "o", "d", "e">>
LitNodeModules == <<"/", "n", "o", "d", "e", "_", "m", "o", "d", "u", "l", "e", "s", "/">>
LitDev == <<"d", "e", "v">>
LitDotNuxtDev == <<".", "n", "u", "x", "t", "/", "d", "e", "v">>
LitNpx == <<"n", "p", "x">>
LitFlagC == <<"-", "C">>
LitNpm == <<"n", "p", "m">>
LitRun == <<"r", "u", "n">>
LitPrefix == <<"-", "-", "p", "r", "e", "f", "i", "x">>

\* start of the token after the whitespace run that must begin at j
\* (\s+ followed by a non-whitespace class); 0 when \s+ cannot match
AfterWs(s, j) ==
    IF j <= Len(s) /\ IsWs(s[j]) /\ WsRunEnd(s, j) <= Len(s) THEN WsRunEnd(s, j) ELSE 0

\* .*?nuxt.*?\s+dev matches somewhere from position b on
NuxtThenDev(s, b) ==
    \E n \in b..Len(s) :
        /\ MatchAt(s, n, KwNuxt)
        /\ \E q \in (n + 5)..Len(s) : IsWs(s[q - 1]) /\ MatchAt(s, q, LitDev)

\* /node\s+([^\s]+)\/node_modules\/.*?nuxt.*?\s+dev/ tried at start i:
\* the set of ends k of the capture s[a..k] for which the rest matches
NodeModulesEnds(s, i) ==
    IF ~MatchAt(s, i, LitNode) \/ AfterWs(s, i + 4) = 0 THEN {}
    ELSE LET a == AfterWs(s, i + 4)
         IN  {k \in a..(TokenEnd(s, a) - 1) :
                 /\ MatchAt(s, k + 1, LitNodeModules)
                 /\ NuxtThenDev(s, k + 1 + Len(LitNodeModules))}

\* /node\s+([^\s]+\/)\.nuxt\/dev/ tried at start i
DotNuxtEnds(s, i) ==
    IF ~MatchAt(s, i, LitNode) \/ AfterWs(s, i + 4) = 0 THEN {}
    ELSE LET a == AfterWs(s, i + 4)
         IN  {k \in (a + 1)..(TokenEnd(s, a) - 1) :
                 s[k] = "/" /\ MatchAt(s, k + 1, LitDotNuxtDev)}

\* a greedy capture [^\s]+ that starts after "node\s+" at i and ends at the
\* largest admissible end
GreedyCapture(s, i, ends) == SubSeq(s, AfterWs(s, i + 4), Max(ends))

\* the positions r of the flag after a lazy .*? from b on, each followed by
\* \s+([^\s]+); wsBefore: the flag is preceded by \s+
FlagStarts(s, b, flag, wsBefore) ==
    {r \in b..Len(s) :
        /\ MatchAt(s, r, flag)
        /\ (wsBefore => (r - 1 >= b /\ IsWs(s[r - 1])))
        /\ AfterWs(s, r + Len(flag)) # 0}

\* the token that starts at c
TokenAt(s, c) == SubSeq(s, c, TokenEnd(s, c) - 1)

\* the capture ([^\s]+) after the first admissible flag
FlagCapture(s, b, flag, wsBefore) ==
    TokenAt(s, AfterWs(s, Min(FlagStarts(s, b, flag, wsBefore)) + Len(flag)))

\* /npx\s+nuxi.*?\s+-C\s+([^\s]+)/ tried at start i: position after "nuxi",
\* 0 when the head does not match there
NuxiHead(s, i) ==
    IF MatchAt(s, i, LitNpx) /\ AfterWs(s, i + 3) # 0 /\ MatchAt(s, AfterWs(s, i + 3), KwNuxi)
    THEN AfterWs(s, i + 3) + 4 ELSE 0

\* /npm\s+run\s+dev.*?--prefix\s+([^\s]+)/ tried at start i: position after
\* "dev", 0 when the head does not match there
NpmHead(s, i) ==
    IF MatchAt(s, i, LitNpm) /\ AfterWs(s, i + 3) # 0 /\ MatchAt(s, AfterWs(s, i + 3), LitRun)
    THEN LET d == AfterWs(s, AfterWs(s, i + 3) + 3)
         IN  IF d # 0 /\ MatchAt(s, d, LitDev) THEN d + 3 ELSE 0
    ELSE 0

\* command.match(pattern)[1] for each of the four patterns: the capture of
\* the leftmost match, None when the pattern does not match
NodeModulesStarts(s) == {i \in 1..Len(s) : NodeModulesEnds(s, i) # {}}
DotNuxtStarts(s) == {i \in 1..Len(s) : DotNuxtEnds(s, i) # {}}
NuxiCStarts(s) ==
    {i \in 1..Len(s) : NuxiHead(s, i) # 0 /\ FlagStarts(s, NuxiHead(s, i), LitFlagC, TRUE) # {}}
NpmPrefixStarts(s) ==
    {i \in 1..Len(s) : NpmHead(s, i) # 0 /\ FlagStarts(s, NpmHead(s, i), LitPrefix, FALSE) # {}}

NodeModulesAt(s, starts) ==
    IF starts = {} THEN None
    ELSE Some(GreedyCapture(s, Min(starts), NodeModulesEnds(s, Min(starts))))
DotNuxtAt(s, starts) ==
    IF starts = {} THEN None
    ELSE Some(GreedyCapture(s, Min(starts), DotNuxtEnds(s, Min(starts))))
NuxiCAt(s, starts) ==
    IF starts = {} THEN None
    ELSE Some(FlagCapture(s, NuxiHead(s, Min(starts)), LitFlagC, TRUE))
NpmPrefixAt(s, starts) ==
    IF starts = {} THEN None
    ELSE Some(FlagCapture(s, NpmHead(s, Min(starts)), LitPrefix, FALSE))

MatchNodeModules(s) == NodeModulesAt(s, NodeModulesStarts(s))
MatchDotNuxt(s) == DotNuxtAt(s, DotNuxtStarts(s))
MatchNuxiC(s) == NuxiCAt(s, NuxiCStarts(s))
MatchNpmPrefix(s) == NpmPrefixAt(s, NpmPrefixStarts(s))

\* the array nuxtPatterns, in its order
nuxtPatterns == <<"nodeModules", "dotNuxt", "nuxiC", "npmPrefix">>

PatternMatch(pattern, s) ==
    CASE pattern = "nodeModules" -> MatchNodeModules(s)
      [] pattern = "dotNuxt" -> MatchDotNuxt(s)
      [] pattern = "nuxiC" -> MatchNuxiC(s)
      [] pattern = "npmPrefix" -> MatchNpmPrefix(s)

\* cwd.replace(/\/$/, ""): one trailing slash removed
StripTrailingSlash(p) ==
    IF p # <<>> /\ p[Len(p)] = "/" THEN SubSeq(p, 1, Len(p) - 1) ELSE p

\* the loop over nuxtPatterns from index n on: the first pattern that matches
\* decides; the result is None when no pattern matches
FirstMatchOr(match, rest) ==
    IF match.some THEN Some(StripTrailingSlash(match.val)) ELSE rest

RECURSIVE InferFrom(_, _)
InferFrom(command, n) ==
    IF n > Len(nuxtPatterns) THEN None
    ELSE FirstMatchOr(PatternMatch(nuxtPatterns[n], command), InferFrom(command, n + 1))

InferCwd(command) == InferFrom(command, 1)

\* ------------------------------------------------------------------------
\* Project resolver, steps 2-4, and the resource sample (getProjectInfo)
\* ------------------------------------------------------------------------
LitN == <<"n">>
LitRemoteOrigin == <<"[", "r", "e", "m", "o", "t", "e", " ", "\"", "o", "r", "i", "g", "i", "n", "\"", "]">>
LitUrl == <<"u", "r", "l">>
LitMB == <<" ", "M", "B">>
LitNaN == <<"N", "a", "N">>
LitPercent == <<"%">>
LitDot == <<".">>

\* JSON values read from the manifest
JUndef == [t |-> "undefined"]
JStr(s) == [t |-> "string", s |-> s]
JObj(url) == [t |-> "object", url |-> url]
Truthy(j) == j.t = "object" \/ (j.t = "string" /\ j.s # <<>>)

\* the result {} of getProjectInfo
EmptyDetails == [cwd |-> None, projectInfo |-> None, memory |-> None, cpu |-> None]

\* the lsof fallback: the rest of the first output line that starts with
\* "n"; None when the command failed or timed out, or printed no such line
NameLine(lines, hits) == IF hits = {} THEN None ELSE Some(From(lines[Min(hits)], 2))
FirstNameLine(lines) == NameLine(lines, {k \in 1..Len(lines) : StartsWith(lines[k], LitN)})

\* lsofOutput.split("\n"): the pieces of s between its line feeds, from i on
RECURSIVE SplitLinesFrom(_, _)
SplitLinesFrom(s, i) ==
    LET e == Min({j \in i..(Len(s) + 1) : j = Len(s) + 1 \/ s[j] = "\n"})
    IN  IF e > Len(s) THEN <<SubSeq(s, i, Len(s))>>
        ELSE <<SubSeq(s, i, e - 1)>> \o SplitLinesFrom(s, e + 1)
SplitLines(s) == SplitLinesFrom(s, 1)

\* execSync(lsof ...).trim(), split into lines
LsofCwd(lookup) ==
    IF ~lookup.ok THEN None ELSE FirstNameLine(SplitLines(Trim(lookup.out)))

\* packageJson.repository?.url || packageJson.repository
RepositoryOf(repository) ==
    IF repository.t = "object" /\ Truthy(repository.url) THEN repository.url ELSE repository

\* the manifest read: None when package.json is missing or does not parse
ReadManifest(manifest) ==
    IF manifest.exists /\ manifest.parses
    THEN Some([name |-> manifest.json.name,
               version |-> manifest.json.version,
               repository |-> RepositoryOf(manifest.json.repository)])
    ELSE None

\* \s in the text of .git/config, line breaks included
IsWsNl(c) == IsWs(c)
SkipWsNl(s, i) == Min({j \in i..(Len(s) + 1) : j = Len(s) + 1 \/ ~IsWsNl(s[j])})
LineEnd(s, i) == Min({j \in i..(Len(s) + 1) : j = Len(s) + 1 \/ IsLineTerminator(s[j])})

\* the capture start of url\s*=\s*(.+) tried at position u; 0 when it fails.
\* The greedy \s* before (.+) gives back a blank when nothing else is left
\* on the line for (.+), which takes no line terminator
UrlValueStart(s, u) ==
    IF ~MatchAt(s, u, LitUrl) THEN 0
    ELSE LET e == SkipWsNl(s, u + 3)
         IN  IF e > Len(s) \/ s[e] # "=" THEN 0
             ELSE LET v == SkipWsNl(s, e + 1)
                      back == {j \in (e + 1)..v : j <= Len(s) /\ ~IsLineTerminator(s[j])}
                  IN  IF back = {} THEN 0 ELSE Max(back)

\* the positions u after the section head at h where url\s*=\s*(.+) matches
UrlsAfter(text, h) ==
    {u \in (h + Len(LitRemoteOrigin))..Len(text) : UrlValueStart(text, u) # 0}

\* the heads [remote "origin"] that are followed by such a position
OriginHeads(text) ==
    {h \in 1..Len(text) : MatchAt(text, h, LitRemoteOrigin) /\ UrlsAfter(text, h) # {}}

RestOfLine(text, v) == SubSeq(text, v, LineEnd(text, v) - 1)

OriginUrlAt(text, heads) ==
    IF heads = {} THEN None
    ELSE Some(Trim(RestOfLine(text, UrlValueStart(text, Min(UrlsAfter(text, Min(heads)))))))

\* gitConfig.match(/\[remote "origin"\][\s\S]*?url\s*=\s*(.+)/)[1].trim()
OriginUrl(text) == OriginUrlAt(text, OriginHeads(text))

SetRepository(info, url) ==
    IF url.some THEN [info EXCEPT !.repository = JStr(url.val)] ELSE info

\* step 4: the repository of the project info after the .git/config fallback
WithGitFallback(info, git) ==
    IF ~Truthy(info.repository) /\ git.exists /\ git.readable
    THEN SetRepository(info, OriginUrl(git.text))
    ELSE info

\* decimal digits of a natural number
RECURSIVE IntToStr(_)
IntToStr(n) ==
    LET d == <<"0", "1", "2", "3", "4", "5", "6", "7", "8", "9">>
    IN  IF n < 10 THEN <<d[n + 1]>> ELSE IntToStr(n \div 10) \o <<d[(n % 10) + 1]>>

DigitVal(c) == CHOOSE v \in 0..9 : IntToStr(v) = <<c>>

RECURSIVE DigitsVal(_)
DigitsVal(s) == IF s = <<>> THEN 0 ELSE 10 * DigitsVal(SubSeq(s, 1, Len(s) - 1)) + DigitVal(s[Len(s)])

\* parseInt(s, 10) of an unsigned text: None is NaN
ParseInt(s) ==
    IF s = <<>> \/ ~IsDigit(s[1]) THEN None
    ELSE Some(DigitsVal(SubSeq(s, 1, DigitRunEnd(s, 1) - 1)))

KBPerMB == 1024

\* `${Math.round(memoryKB / 1024)} MB`
MemoryText(kb) ==
    IF ~kb.some THEN LitNaN \o LitMB
    ELSE IntToStr((2 * kb.val + KBPerMB) \div (2 * KBPerMB)) \o LitMB
FormatMemory(part) == MemoryText(ParseInt(part))

\* `${parseFloat(s).toFixed(1)}%` of a text with at most one decimal, as
\* ps prints pcpu
FirstDecimal(part, e) ==
    IF e + 1 <= Len(part) /\ part[e] = "." /\ IsDigit(part[e + 1]) THEN <<part[e + 1]>> ELSE <<"0">>
CpuText(part, whole) ==
    IF ~whole.some THEN LitNaN \o LitPercent
    ELSE IntToStr(whole.val) \o LitDot \o FirstDecimal(part, DigitRunEnd(part, 1)) \o LitPercent
FormatCpu(part) == CpuText(part, ParseInt(part))

\* the resource sample: memory and cpu from the output of ps
MutSampleMemoryOnly(ok, psOutput, parts) ==
    IF ok /\ Len(psOutput) > 0 /\ Len(parts) >= 1
    THEN [memory |-> Some(FormatMemory(parts[1])), cpu |-> None]
    ELSE [memory |-> None, cpu |-> None]
SampleOf(ok, psOutput, parts) ==
    IF ok /\ Len(psOutput) > 0 /\ Len(parts) >= 2
    THEN [memory |-> Some(FormatMemory(parts[1])), cpu |-> Some(FormatCpu(parts[2]))]
    ELSE [memory |-> None, cpu |-> None]
NonEmptyParts(psOutput) == SelectSeq(SplitWs(psOutput), LAMBDA x : Len(x) > 0)
SampleTrimmed(ok, psOutput) == SampleOf(ok, psOutput, NonEmptyParts(psOutput))
Sample(ps) == SampleTrimmed(ps.ok, Trim(ps.out))

\* the working directory: pattern inference, else the lsof fallback; an
\* empty path counts as none
NonEmptyPath(path) == IF path.some /\ Len(path.val) > 0 THEN path ELSE None
PathOr(inferred, lookup) ==
    IF inferred.some /\ Len(inferred.val) > 0 THEN inferred ELSE LsofCwd(lookup)
ResolveCwd(command, env) == NonEmptyPath(PathOr(InferCwd(command), env.cwdLookup))

ProjectInfoOf(manifest, git) ==
    IF manifest.some THEN Some(WithGitFallback(manifest.val, git)) ELSE None

DetailsOf(cwd, env, sample) ==
    IF ~cwd.some THEN EmptyDetails
    ELSE [cwd |-> cwd,
          projectInfo |-> ProjectInfoOf(ReadManifest(env.manifest), env.git),
          memory |-> sample.memory,
          cpu |-> sample.cpu]

GetProjectInfo(pid, command, env) ==
    DetailsOf(ResolveCwd(command, env), env, Sample(env.ps))

\* ------------------------------------------------------------------------
\* The environment: what the shell commands print and what the files hold
\* ------------------------------------------------------------------------
\* lines of `lsof -i :3000-3010 ... | awk '{print $2, $9}'`
LsofLineA == <<"1", "2", "3", " ", "*", ":", "3", "0", "0", "0">>
LsofLineB == <<"1", "2", " ", "l", "o", "c", "a", "l", "h", "o", "s", "t", ":", "3", "0", "0", "1">>
LsofLineA2 == <<"1", "2", "3", " ", "*", ":", "3", "0", "0", "1">>
LsofLineNoAddress == <<"1", "2", " ">>
LsofLineNoPort == <<"1", "2", "3", " ", "*", ":", "h", "t", "t", "p">>
LsofLines == {LsofLineA, LsofLineA2, LsofLineB, LsofLineNoAddress, LsofLineNoPort}

\* the title row of lsof (COMMAND PID ... NODE NAME) passes `grep -i node`,
\* and awk prints its second and ninth field
LsofTitleLine == <<"P", "I", "D", " ", "N", "A", "M", "E">>


\* lines of `ps aux | grep -i "node.*nuxt\|nuxi\|nitro"`: every line holds
\* one of the keywords of the grep
PsLineA == <<"u", " ", "1", "2", "3", " ", "0", ".", "0", " ", "0", ".", "1", " ", "1", " ", "2", " ", "?", "?", " ", "S", " ", "9", ":", "0", "0", " ", "0", ":", "0", "1", " ", "n", "o", "d", "e", " ", "/", "h", "o", "m", "e", "/", "u", "/", "a", "p", "p", "/", "n", "o", "d", "e", "_", "m", "o", "d", "u", "l", "e", "s", "/", ".", "b", "i", "n", "/", "n", "u", "x", "t", " ", "d", "e", "v">>
PsLineB == <<"u", " ", "1", "2", " ", "1", ".", "5", " ", "0", ".", "1", " ", "1", " ", "2", " ", "?", "?", " ", "S", " ", "9", ":", "0", "0", " ", "0", ":", "0", "1", " ", "N", "i", "t", "r", "o", " ", "d", "e", "v">>
PsLines == {PsLineA, PsLineB}

\* the texts of at most n lines over a set of lines
TextsUpTo(lines, n) == UNION {[1..k -> lines] : k \in 0..n}

\* what the pipeline prints: nothing when lsof lists nothing, else the title
\* line followed by the rows of the node processes
ScanTexts(rows, n) == {<<>>} \cup {<<LsofTitleLine>> \o t : t \in TextsUpTo(rows, n)}
LsofOutputs == ScanTexts(LsofLines, MaxLsofLines)
PsOutputs == TextsUpTo(PsLines, MaxPsLines)

\* `lsof -a -p <pid> -d cwd -Fn`: failed or timed out, no name line, a name line
\* (what it printed, as execSync returns it), also a name line that ends in a blank
LookupFails == [ok |-> FALSE, out |-> <<>>]
LookupNoName == [ok |-> TRUE, out |-> <<"p", "4", "5", "\n">>]
LookupFinds == [ok |-> TRUE, out |-> <<"p", "4", "5", "\n", "f", "c", "w", "d", "\n", "n", "/", "s", "r", "v", "/", "p", "r", "o", "j", "\n">>]
LookupFindsBlank == [ok |-> TRUE, out |-> <<"p", "4", "5", "\n", "n", "/", "s", "r", "v", "/", "p", "r", "o", "j", " ", "\n">>]

\* package.json
NameX == <<"x">>
Version123 == <<"1", ".", "2", ".", "3">>
UrlGitPlus == <<"g", "i", "t", "+", "h", "t", "t", "p", "s", ":", "/", "/", "g", "i", "t", "h", "u", "b", ".", "c", "o", "m", "/", "a", "/", "b", ".", "g", "i", "t">>
UrlSsh == <<"g", "i", "t", "@", "g", "i", "t", "h", "u", "b", ".", "c", "o", "m", ":", "a", "/", "b", ".", "g", "i", "t">>
UrlSshOtherHost == <<"g", "i", "t", "@", "g", "i", "t", "l", "a", "b", ".", "c", "o", "m", ":", "a", "/", "b", ".", "g", "i", "t">>
NoJson == [name |-> JUndef, version |-> JUndef, repository |-> JUndef]
ManifestMissing == [exists |-> FALSE, parses |-> FALSE, json |-> NoJson]
ManifestBroken == [exists |-> TRUE, parses |-> FALSE, json |-> NoJson]
ManifestFull ==
    [exists |-> TRUE, parses |-> TRUE,
     json |-> [name |-> JStr(NameX), version |-> JStr(Version123), repository |-> JObj(JStr(UrlGitPlus))]]
ManifestNoRepo ==
    [exists |-> TRUE, parses |-> TRUE,
     json |-> [name |-> JStr(NameX), version |-> JUndef, repository |-> JUndef]]

ManifestObjNoUrl ==
    [exists |-> TRUE, parses |-> TRUE,
     json |-> [name |-> JStr(NameX), version |-> JStr(Version123), repository |-> JObj(JUndef)]]
ManifestObjName ==
    [exists |-> TRUE, parses |-> TRUE,
     json |-> [name |-> JObj(JStr(NameX)), version |-> JUndef, repository |-> JUndef]]
ManifestEmptyRepo ==
    [exists |-> TRUE, parses |-> TRUE,
     json |-> [name |-> JStr(NameX), version |-> JStr(Version123), repository |-> JStr(<<>>)]]
ManifestSsh ==
    [exists |-> TRUE, parses |-> TRUE,
     json |-> [name |-> JUndef, version |-> JStr(Version123), repository |-> JStr(UrlSsh)]]
ManifestOtherHost ==
    [exists |-> TRUE, parses |-> TRUE,
     json |-> [name |-> JStr(NameX), version |-> JUndef, repository |-> JStr(UrlSshOtherHost)]]

\* .git/config
GitTextOrigin == <<"[", "c", "o", "r", "e", "]", "\n", "\t", "b", "a", "r", "e", " ", "=", " ", "f", "a", "l", "s", "e", "\n", "[", "r", "e", "m", "o", "t", "e", " ", "\"", "o", "r", "i", "g", "i", "n", "\"", "]", "\n", "\t", "u", "r", "l", " ", "=", " ", "g", "i", "t", "@", "g", "i", "t", "h", "u", "b", ".", "c", "o", "m", ":", "a", "/", "b", ".", "g", "i", "t", " ", "\n", "\t", "f", "e", "t", "c", "h", " ", "=", " ", "+", "r", "e", "f", "s", "\n">>
GitTextNoOrigin == <<"[", "c", "o", "r", "e", "]", "\n", "\t", "b", "a", "r", "e", " ", "=", " ", "f", "a", "l", "s", "e", "\n">>
GitTextOriginCrlf == <<"[", "r", "e", "m", "o", "t", "e", " ", "\"", "o", "r", "i", "g", "i", "n", "\"", "]", "\r", "\n", "\t", "u", "r", "l", " ", "=", " ", "g", "i", "t", "@", "g", "i", "t", "h", "u", "b", ".", "c", "o", "m", ":", "a", "/", "b", ".", "g", "i", "t", "\r", "\n", "\t", "f", "e", "t", "c", "h", " ", "=", " ", "+", "r", "e", "f", "s", "\r", "\n">>
GitMissing == [exists |-> FALSE, readable |-> FALSE, text |-> <<>>]
GitUnreadable == [exists |-> TRUE, readable |-> FALSE, text |-> <<>>]
GitOrigin == [exists |-> TRUE, readable |-> TRUE, text |-> GitTextOrigin]
GitNoOrigin == [exists |-> TRUE, readable |-> TRUE, text |-> GitTextNoOrigin]
GitOriginCrlf == [exists |-> TRUE, readable |-> TRUE, text |-> GitTextOriginCrlf]
\* an origin section whose url has no value, in a file with CR LF line ends
GitTextEmptyUrlCrlf == <<"[", "r", "e", "m", "o", "t", "e", " ", "\"", "o", "r", "i", "g", "i", "n", "\"", "]", "\r", "\n", "\t", "u", "r", "l", " ", "=", "\r", "\n">>
GitEmptyUrlCrlf == [exists |-> TRUE, readable |-> TRUE, text |-> GitTextEmptyUrlCrlf]

\* `ps -p <pid> -o rss=,pcpu=`
PsFails == [ok |-> FALSE, out |-> <<>>]
PsPrintsNothing == [ok |-> TRUE, out |-> <<>>]
PsPrintsOne == [ok |-> TRUE, out |-> <<"1", "5", "3", "6", "\n">>]
PsPrintsBoth == [ok |-> TRUE, out |-> <<"5", "1", "7", "1", "2", " ", " ", "1", "2", ".", "5", "\n">>]
PsPrintsWhole == [ok |-> TRUE, out |-> <<" ", "1", "5", "3", "5", " ", "7", "\n">>]

Env(l, m, g, p) == [cwdLookup |-> l, manifest |-> m, git |-> g, ps |-> p]

\* the environments a resolution may meet
Envs ==
    {Env(LookupFinds, ManifestFull, GitMissing, PsPrintsBoth),
     Env(LookupFails, ManifestFull, GitOrigin, PsPrintsBoth),
     Env(LookupFinds, ManifestNoRepo, GitOrigin, PsFails),
     Env(LookupNoName, ManifestBroken, GitUnreadable, PsPrintsWhole),
     Env(LookupFinds, ManifestMissing, GitNoOrigin, PsPrintsOne),
     Env(LookupFinds, ManifestObjName, GitMissing, PsPrintsNothing)}

\* ------------------------------------------------------------------------
\* State of the mounted command
\* ------------------------------------------------------------------------
VARIABLES
    lsofData,        \* result of the port scan; None until it returns
    lsofLoading,     \* the port scan is running
    psData,          \* result of the process-table scan; None until it returns
    psLoading,       \* the process-table scan is running
    nuxtProcesses,   \* the memoised matched-process list
    processDetails,  \* the store: pid -> result of getProjectInfo
    effectDeps,      \* the dependency values the reconcile effect last ran with
    calls,           \* history: pid -> getProjectInfo calls since the pid appeared
    envOf,           \* history: pid -> the environment its stored details were resolved in
    reconciled,      \* history: the pid set of the last reconcile run
    command,         \* directory inference alone: the command line given to it
    inferred,        \* directory inference alone: None, then Some(its result)
    system,          \* resolution alone: what getProjectInfo reads from the system
    resolved,        \* resolution alone: None, then Some(the result of getProjectInfo)
    action,          \* the last menu action handler that ended: None, or Some(what it did)
    handlers,        \* the menu action handlers that wait at an await, in the order of the clicks
    components,      \* filtering alone: the list given to filterComponents
    searchText,      \* filtering alone: its search text
    selectedType,    \* filtering alone: its type, None for null
    filtered,        \* filtering alone: None, then Some(the list it returned)
    again            \* filtering alone: None, then Some(the result of filtering that list)

pollVars == <<lsofData, lsofLoading, psData, psLoading, nuxtProcesses, processDetails,
              effectDeps, calls, envOf, reconciled>>
inferVars == <<command, inferred>>
resolveVars == <<system, resolved>>
filterVars == <<components, searchText, selectedType, filtered, again>>
actionVars == <<action, handlers>>
vars == <<pollVars, inferVars, resolveVars, actionVars, filterVars>>

\* the empty Map
EmptyMap == [p \in {} |-> EmptyDetails]

\* [nuxtProcesses.map(p => p.pid).join(","), processDetails.size]
Deps(procs, details) == <<Join(PidList(procs), Comma), Cardinality(DOMAIN details)>>

\* the effect runs after a render whose dependency values differ from those
\* of its last run (and after the first render)
EffectPending == effectDeps # Some(Deps(nuxtProcesses, processDetails))

\* ------------------------------------------------------------------------
\* The reconcile effect
\* ------------------------------------------------------------------------
\* the needsUpdate flag: a listed pid without an entry, or an entry whose
\* pid is not listed
MutNeedsUpdateNewOnly(procs, details) ==
    \E k \in 1..Len(procs) : procs[k].pid \notin DOMAIN details
NeedsUpdate(procs, details) ==
    \/ \E k \in 1..Len(procs) : procs[k].pid \notin DOMAIN details
    \/ \E pid \in DOMAIN details : pid \notin PidSet(procs)

\* "keep existing details for active processes"
MutKeepAll(details, activePids) == details
MutKeepNone(details, activePids) == [pid \in {} |-> details[pid]]
KeepActive(details, activePids) ==
    [pid \in DOMAIN details \cap activePids |-> details[pid]]

\* !newDetails.has(process.pid)
MutIsNewAlways(newDetails, pid) == TRUE
IsNew(newDetails, pid) == pid \notin DOMAIN newDetails

\* map.set(key, value)
MapSet(map, key, value) ==
    [q \in DOMAIN map \cup {key} |-> IF q = key THEN value ELSE map[q]]

\* the call history after one more getProjectInfo call for the pid
Count(c, pid) ==
    MapSet(c, pid, IF pid \notin DOMAIN c THEN 1
                   ELSE IF c[pid] < MaxCalls THEN c[pid] + 1 ELSE c[pid])

\* one resolution: getProjectInfo is called in the environment env and its
\* result is set in newDetails; the histories record the call
Fetch(acc, process, env) ==
    [details |-> MapSet(acc.details, process.pid,
                        GetProjectInfo(process.pid, process.command, env)),
     calls |-> Count(acc.calls, process.pid),
     envs |-> MapSet(acc.envs, process.pid, env)]

\* "fetch info for new processes only": the loop over nuxtProcesses from
\* index k on; envAt[k] is the environment the k-th process would meet
RECURSIVE FetchLoop(_, _, _, _)
FetchLoop(procs, k, acc, envAt) ==
    IF k > Len(procs) THEN acc
    ELSE IF IsNew(acc.details, procs[k].pid)
         THEN FetchLoop(procs, k + 1, Fetch(acc, procs[k], envAt[k]), envAt)
         ELSE FetchLoop(procs, k + 1, acc, envAt)

\* the store with its histories, as the effect finds it
Stored == [details |-> processDetails, calls |-> calls, envs |-> envOf]

\* the body of the effect: the next store (and histories); old is Stored
MutReconcileRefetchAll(procs, old, envAt) ==
    FetchLoop(procs, 1, [old EXCEPT !.details = EmptyMap, !.envs = EmptyMap], envAt)
Reconcile(procs, old, envAt) ==
    IF Len(procs) = 0
    THEN (IF Cardinality(DOMAIN old.details) > 0
          THEN [old EXCEPT !.details = EmptyMap, !.envs = EmptyMap]
          ELSE old)
    ELSE IF ~NeedsUpdate(procs, old.details)
         THEN old
         ELSE FetchLoop(procs, 1,
                        [old EXCEPT !.details = KeepActive(old.details, PidSet(procs)),
                                    !.envs = KeepActive(old.envs, PidSet(procs))],
                        envAt)

\* setProcessDetails(newDetails), with the histories
Commit(r) ==
    /\ processDetails' = r.details
    /\ calls' = r.calls
    /\ envOf' = r.envs

RunEffectIn(envs) ==
    /\ EffectPending
    /\ \E envAt \in [1..Len(nuxtProcesses) -> envs] :
          Commit(Reconcile(nuxtProcesses, Stored, envAt))
    /\ effectDeps' = Some(Deps(nuxtProcesses, processDetails))
    /\ reconciled' = Some(PidSet(nuxtProcesses))
    /\ UNCHANGED <<lsofData, lsofLoading, psData, psLoading, nuxtProcesses>>
    /\ UNCHANGED inferVars
    /\ UNCHANGED <<resolveVars, actionVars, filterVars>>

RunEffect == RunEffectIn(Envs)

\* ------------------------------------------------------------------------
\* The menu (render)
\* ------------------------------------------------------------------------
LitPortTitle == <<"P", "o", "r", "t", " ">>

\* Array.from(new Set(nuxtProcesses.map(p => p.port))): the ports in the
\* order of their first occurrence
RECURSIVE UniqueFrom(_, _, _)
UniqueFrom(procs, k, acc) ==
    IF k > Len(procs) THEN acc
    ELSE IF \E j \in 1..Len(acc) : acc[j] = procs[k].port
         THEN UniqueFrom(procs, k + 1, acc)
         ELSE UniqueFrom(procs, k + 1, Append(acc, procs[k].port))
UniquePorts(procs) == UniqueFrom(procs, 1, <<>>)

\* nuxtProcesses.filter(p => p.port === port)
ProcessesOnPort(procs, port) == SelectSeq(procs, LAMBDA p : p.port = port)

\* processDetails.get(mainProcess.pid)
DetailsGet(details, pid) == IF pid \in DOMAIN details THEN details[pid] ELSE EmptyDetails

\* a field of details?.projectInfo when it is truthy
InfoField(info, field) ==
    IF info.some /\ Truthy(info.val[field]) THEN Some(info.val[field]) ELSE None

\* details?.projectInfo?.name || `Port ${port}`: the name as the manifest
\* holds it (a string, or an object when the manifest has one there) when it
\* is truthy, else the string made of the port
MutProjectNameBarePort(name, port) == IF name.some THEN name.val ELSE JStr(port)
ProjectName(name, port) == IF name.some THEN name.val ELSE JStr(LitPortTitle \o port)

\* details?.memory && ..., details?.cpu && ...
Row(text) == IF text.some /\ Len(text.val) > 0 THEN text ELSE None

\* the submenu of a port: title, rows and actions
SubmenuOf(port, onPort, details) ==
    [port |-> port,
     title |-> ProjectName(InfoField(details.projectInfo, "name"), port),
     version |-> InfoField(details.projectInfo, "version"),
     memory |-> Row(details.memory),
     cpu |-> Row(details.cpu),
     openBrowser |-> port,
     openRepo |-> InfoField(details.projectInfo, "repository"),
     stop |-> PidList(onPort)]
Submenu(port, onPort, store) == SubmenuOf(port, onPort, DetailsGet(store, onPort[1].pid))
MenuOf(ports, procs, store) ==
    [k \in 1..Len(ports) |-> Submenu(ports[k], ProcessesOnPort(procs, ports[k]), store)]

\* the Running Servers section
Menu == MenuOf(UniquePorts(nuxtProcesses), nuxtProcesses, processDetails)

\* ------------------------------------------------------------------------
\* Polls and user actions
\* ------------------------------------------------------------------------
\* the call history follows the appearances of pids in the matched list
Appearances(c, procs) ==
    [pid \in PidSet(procs) |-> IF pid \in DOMAIN c THEN c[pid] ELSE 0]

\* the port scan returns: lsofData is set and the list is recomputed
LsofReturnsFrom(outputs) ==
    /\ lsofLoading
    /\ ~EffectPending
    /\ \E out \in outputs :
          /\ lsofData' = Some(out)
          /\ nuxtProcesses' = ComputeNuxtProcesses(Some(out), psData)
    /\ lsofLoading' = FALSE
    /\ calls' = Appearances(calls, nuxtProcesses')
    /\ UNCHANGED <<psData, psLoading, processDetails, effectDeps, envOf, reconciled>>
    /\ UNCHANGED inferVars
    /\ UNCHANGED <<resolveVars, actionVars, filterVars>>

LsofReturns == LsofReturnsFrom(LsofOutputs)

\* the process-table scan returns (it runs once, at mount)
PsReturns ==
    /\ psLoading
    /\ ~EffectPending
    /\ \E out \in PsOutputs :
          /\ psData' = Some(out)
          /\ nuxtProcesses' = ComputeNuxtProcesses(lsofData, Some(out))
    /\ psLoading' = FALSE
    /\ calls' = Appearances(calls, nuxtProcesses')
    /\ UNCHANGED <<lsofData, lsofLoading, processDetails, effectDeps, envOf, reconciled>>
    /\ UNCHANGED inferVars
    /\ UNCHANGED <<resolveVars, actionVars, filterVars>>

\* revalidate(): the Refresh item, and the end of a successful Stop Server
Revalidate ==
    /\ ~lsofLoading
    /\ ~EffectPending
    /\ lsofLoading' = TRUE
    /\ UNCHANGED <<lsofData, psData, psLoading, nuxtProcesses, processDetails,
                   effectDeps, calls, envOf, reconciled>>
    /\ UNCHANGED inferVars
    /\ UNCHANGED <<resolveVars, actionVars, filterVars>>

InitPoll ==
    /\ lsofData = None
    /\ lsofLoading = TRUE
    /\ psData = None
    /\ psLoading = TRUE
    /\ nuxtProcesses = <<>>
    /\ processDetails = EmptyMap
    /\ effectDeps = None
    /\ calls = EmptyMap
    /\ envOf = EmptyMap
    /\ reconciled = None

\* nothing resolved on its own, no menu action run
IdleEnv == Env(LookupFails, ManifestMissing, GitMissing, PsFails)
NothingFiltered ==
    /\ components = <<>>
    /\ searchText = <<>>
    /\ selectedType = None
    /\ filtered = None
    /\ again = None
NoAction == action = None /\ handlers = <<>>
InitIdle == system = IdleEnv /\ resolved = None /\ NoAction /\ NothingFiltered

Init == InitPoll /\ command = <<>> /\ inferred = None /\ InitIdle

Next == RunEffect \/ LsofReturns \/ PsReturns \/ Revalidate

Spec == Init /\ [][Next]_vars

\* ------------------------------------------------------------------------
\* Directory inference alone: the pattern loop of getProjectInfo applied to
\* command lines that carry a directory flag
\* ------------------------------------------------------------------------
MaxSlashes == 2

GenericNodeModules == <<"n", "o", "d", "e", " ", "/", "h", "o", "m", "e", "/", "u", "/", "a", "p", "p", "/", "n", "o", "d", "e", "_", "m", "o", "d", "u", "l", "e", "s", "/", ".", "b", "i", "n", "/", "n", "u", "x", "t", " ", "d", "e", "v">>
GenericDotNuxt == <<"n", "o", "d", "e", " ", "/", "h", "o", "m", "e", "/", "u", "/", "a", "p", "p", "/", ".", "n", "u", "x", "t", "/", "d", "e", "v", "/", "i", "n", "d", "e", "x", ".", "m", "j", "s">>
LaunchNpxNuxiDev == <<"n", "p", "x", " ", "n", "u", "x", "i", " ", "d", "e", "v">>
LaunchNpxNuxi == <<"n", "p", "x", " ", "n", "u", "x", "i">>
LaunchNuxiDev == <<"n", "u", "x", "i", " ", "d", "e", "v">>
LaunchNpmRunDev == <<"n", "p", "m", " ", "r", "u", "n", " ", "d", "e", "v">>
PathProj == <<"/", "s", "r", "v", "/", "p", "r", "o", "j">>

Launchers == {LaunchNpxNuxiDev, LaunchNpxNuxi, LaunchNuxiDev, LaunchNpmRunDev}
Flags == {LitFlagC, LitPrefix}
Generics == {GenericNodeModules, GenericDotNuxt}

\* the path written with k trailing slashes
WithSlashes(path, k) == path \o [i \in 1..k |-> "/"]
Paths == {WithSlashes(PathProj, k) : k \in 0..MaxSlashes}

\* launcher, flag and path, alone or next to a command of the generic shape
Flagged == {l \o Space \o f \o Space \o p : l \in Launchers, f \in Flags, p \in Paths}
Commands ==
    Flagged
      \cup {g \o Space \o c : g \in Generics, c \in Flagged}
      \cup {c \o Space \o g : g \in Generics, c \in Flagged}

InitInfer == InitPoll /\ command \in Commands /\ inferred = None /\ InitIdle

\* the loop over nuxtPatterns, run on the command
Infer ==
    /\ ~inferred.some
    /\ inferred' = Some(InferCwd(command))
    /\ UNCHANGED <<command, pollVars, resolveVars, actionVars, filterVars>>

NextInfer == Infer

SpecInfer == InitInfer /\ [][NextInfer]_vars

\* ------------------------------------------------------------------------
\* Resolution alone: getProjectInfo applied to a command in every
\* combination of outcomes of the four things it reads
\* ------------------------------------------------------------------------
Lookups == {LookupFails, LookupNoName, LookupFinds, LookupFindsBlank}
Manifests ==
    {ManifestMissing, ManifestBroken, ManifestFull, ManifestNoRepo, ManifestObjNoUrl,
     ManifestObjName, ManifestEmptyRepo, ManifestSsh, ManifestOtherHost}
Gits == {GitMissing, GitUnreadable, GitOrigin, GitNoOrigin, GitOriginCrlf, GitEmptyUrlCrlf}
PsRuns == {PsFails, PsPrintsNothing, PsPrintsOne, PsPrintsBoth, PsPrintsWhole}
AllEnvs == {Env(l, m, g, p) : l \in Lookups, m \in Manifests, g \in Gits, p \in PsRuns}

Port3000 == <<"3", "0", "0", "0">>
PidA == <<"1", "2", "3">>
\* a command no pattern matches (the placeholder), and one the first matches
ResolveCommands == {Placeholder \o Port3000, GenericNodeModules}

InitResolve ==
    /\ InitPoll
    /\ inferred = None
    /\ command \in ResolveCommands
    /\ system \in AllEnvs
    /\ resolved = None
    /\ NoAction
    /\ NothingFiltered

\* const info = getProjectInfo(process.pid, process.command)
Resolve ==
    /\ ~resolved.some
    /\ resolved' = Some(GetProjectInfo(PidA, command, system))
    /\ UNCHANGED <<command, inferred, system, actionVars, pollVars, filterVars>>

\* the Open GitHub Repo item: the url is cleaned up and opened
LitGitPlus == <<"g", "i", "t", "+">>
LitGitAt == <<"g", "i", "t", "@">>
LitSshGithub == <<"g", "i", "t", "@", "g", "i", "t", "h", "u", "b", ".", "c", "o", "m", ":">>
LitHttpsGithub == <<"h", "t", "t", "p", "s", ":", "/", "/", "g", "i", "t", "h", "u", "b", ".", "c", "o", "m", "/">>
LitDotGit == <<".", "g", "i", "t">>

\* if (repoUrl.startsWith("git+")) repoUrl = repoUrl.substring(4)
StripGitPlus(url) == IF StartsWith(url, LitGitPlus) THEN From(url, 5) ELSE url

\* String.prototype.replace with a string pattern: the first occurrence
ReplaceAt(s, hits, pat, by) ==
    IF hits = {} THEN s
    ELSE SubSeq(s, 1, Min(hits) - 1) \o by \o From(s, Min(hits) + Len(pat))
ReplaceFirst(s, pat, by) == ReplaceAt(s, {i \in 1..Len(s) : MatchAt(s, i, pat)}, pat, by)

\* if (repoUrl.startsWith("git@")) repoUrl = repoUrl.replace("git@github.com:", "https://github.com/")
RewriteSsh(url) ==
    IF StartsWith(url, LitGitAt) THEN ReplaceFirst(url, LitSshGithub, LitHttpsGithub) ELSE url

\* repoUrl.replace(/\.git$/, "")
StripDotGit(url) ==
    IF Len(url) >= 4 /\ MatchAt(url, Len(url) - 3, LitDotGit)
    THEN SubSeq(url, 1, Len(url) - 4) ELSE url

NormalizeRepoUrl(url) == StripDotGit(RewriteSsh(StripGitPlus(url)))

LitLocalhost == <<"h", "t", "t", "p", ":", "/", "/", "l", "o", "c", "a", "l", "h", "o", "s", "t", ":">>

\* A menu action handler is an async function: it stops at each await and
\* goes on when the awaited call has settled, and other callbacks of the
\* component run in between. A run of a handler: its kind, the argument it
\* has for open() or kill (None when startsWith threw before there was
\* one), the await it waits at, whether open() or kill has been made and has
\* succeeded, the calls of showToast it has made in order, and whether it
\* has called revalidate()
Run(kind, target, at, ok, toasts, repoll) ==
    [kind |-> kind, target |-> target, at |-> at, ok |-> ok, toasts |-> toasts,
     repoll |-> repoll]

\* what a handler that ended did
Did(run) ==
    [kind |-> run.kind, target |-> run.target, ok |-> run.ok, toasts |-> run.toasts,
     repoll |-> run.repoll]

\* showToast of the style is called and awaited at `at`: "toast" inside the
\* try block, "toastInCatch" inside the catch block. The promise resolves or
\* rejects when the handler goes on
Toasts(run, style, at) == [run EXCEPT !.toasts = Append(run.toasts, style), !.at = at]

\* handleOpenBrowser(port) up to `await open(...)`
StartOpenBrowser(port) ==
    Run("openBrowser", Some(LitLocalhost \o port), "open", FALSE, <<>>, FALSE)

\* handleKillProcess(pid) up to the await of the Animated toast
StartKill(pid) == Run("kill", Some(pid), "toastBeforeKill", FALSE, <<"animated">>, FALSE)

\* the onAction of Open GitHub Repo up to its first await: `await open(repoUrl)`,
\* or the await of the failure toast when the repository is no string and
\* startsWith throws
StartOpenRepo(repository) ==
    IF repository.t # "string"
    THEN Run("openRepo", None, "toastInCatch", FALSE, <<"failure">>, FALSE)
    ELSE Run("openRepo", Some(NormalizeRepoUrl(repository.s)), "open", FALSE, <<>>, FALSE)

\* the catch block: the Failure toast is shown and awaited
Caught(run) == Toasts(run, "failure", "toastInCatch")

\* open() has settled. Resolved: handleOpenBrowser goes on to the Success
\* toast, the onAction of Open GitHub Repo ends. Rejected: the catch block
AfterOpen(run, settled) ==
    IF ~settled THEN Caught(run)
    ELSE IF run.kind = "openBrowser"
         THEN Toasts([run EXCEPT !.ok = TRUE], "success", "toast")
         ELSE [run EXCEPT !.ok = TRUE, !.at = "end"]

\* the Animated toast has settled. Rejected: the catch block, and no kill is
\* made. Resolved: execSync(`kill -9 ${pid}`) returns, and the Success toast
\* follows, or throws into the catch block
AfterToastBeforeKill(run, settled, killOk) ==
    IF settled /\ killOk
    THEN Toasts([run EXCEPT !.ok = TRUE], "success", "toast")
    ELSE Caught(run)

\* the Success toast has settled. Resolved: handleKillProcess calls
\* revalidate(), and the handler ends. Rejected: the catch block, and
\* revalidate() is not reached
AfterToast(run, settled) ==
    IF settled THEN [run EXCEPT !.repoll = (run.kind = "kill"), !.at = "end"]
    ELSE Caught(run)

\* the Failure toast of the catch block has settled, resolved or rejected:
\* the handler ends
MutAfterToastInCatchRepolls(run) ==
    [run EXCEPT !.repoll = (run.kind = "kill"), !.at = "end"]
AfterToastInCatch(run) == [run EXCEPT !.at = "end"]

\* the handler goes on after the await it waits at: settled says whether the
\* awaited promise resolved, killOk whether the kill returns when the handler
\* gets to it
Continue(run, settled, killOk) ==
    CASE run.at = "open" -> AfterOpen(run, settled)
      [] run.at = "toastBeforeKill" -> AfterToastBeforeKill(run, settled, killOk)
      [] run.at = "toast" -> AfterToast(run, settled)
      [] run.at = "toastInCatch" -> AfterToastInCatch(run)

\* the handlers without the k-th
Without(runs, k) == SubSeq(runs, 1, k - 1) \o SubSeq(runs, k + 1, Len(runs))

\* the k-th waiting handler has gone on to next: it waits again, or it has
\* ended, and lsofRevalidate() starts a port scan when it called revalidate()
Resumed(k, next) ==
    IF next.at = "end"
    THEN /\ handlers' = Without(handlers, k)
         /\ action' = Some(Did(next))
         /\ lsofLoading' = (lsofLoading \/ next.repoll)
    ELSE /\ handlers' = [handlers EXCEPT ![k] = next]
         /\ UNCHANGED <<action, lsofLoading>>

\* the ways the handler can go on: the awaited promise resolves or rejects,
\* and after the Animated toast has resolved the kill returns or throws
Outcomes(run) ==
    {o \in BOOLEAN \X BOOLEAN : o[2] => (run.at = "toastBeforeKill" /\ o[1])}

\* an awaited open() or showToast resolves or rejects and its handler goes on
HandlerResumes ==
    /\ \E k \in 1..Len(handlers) :
          \E o \in Outcomes(handlers[k]) : Resumed(k, Continue(handlers[k], o[1], o[2]))
    /\ UNCHANGED <<lsofData, psData, psLoading, nuxtProcesses, processDetails,
                   effectDeps, calls, envOf, reconciled>>
    /\ UNCHANGED <<inferVars, resolveVars, filterVars>>

\* a click on a menu item: its handler runs up to its first await
Clicked(run) ==
    /\ Len(handlers) < MaxHandlers
    /\ handlers' = Append(handlers, run)
    /\ UNCHANGED <<action, pollVars, inferVars, resolveVars, filterVars>>

\* the item is rendered when details?.projectInfo?.repository is truthy
HasRepoItem(details) ==
    details.projectInfo.some /\ Truthy(details.projectInfo.val.repository)

\* Open GitHub Repo for the resolved details, once
OpenResolvedRepo ==
    /\ resolved.some
    /\ ~action.some
    /\ HasRepoItem(resolved.val)
    /\ Clicked(StartOpenRepo(resolved.val.projectInfo.val.repository))

NextResolve == Resolve \/ OpenResolvedRepo \/ HandlerResumes

\* ------------------------------------------------------------------------
\* The menu actions, next to the polls of two servers in two environments
\* ------------------------------------------------------------------------
\* the scans of two servers: none, either, or both of them listening
ActionLsofOutputs ==
    ScanTexts({LsofLineA, LsofLineB}, 1) \cup {<<LsofTitleLine, LsofLineA, LsofLineB>>}
ActionEnvs ==
    {Env(LookupFinds, ManifestFull, GitMissing, PsPrintsBoth),
     Env(LookupFails, ManifestFull, GitOrigin, PsPrintsBoth)}

\* Open in Browser of a submenu
OpenBrowser ==
    /\ ~EffectPending
    /\ \E k \in 1..Len(Menu) : Clicked(StartOpenBrowser(Menu[k].openBrowser))

\* Stop Server (PID: pid) of a submenu
KillProcess ==
    /\ ~EffectPending
    /\ \E k \in 1..Len(Menu) :
          \E j \in 1..Len(Menu[k].stop) : Clicked(StartKill(Menu[k].stop[j]))

\* Open GitHub Repo of a submenu that has the item
OpenRepo ==
    /\ ~EffectPending
    /\ \E k \in 1..Len(Menu) :
          /\ Menu[k].openRepo.some
          /\ Clicked(StartOpenRepo(Menu[k].openRepo.val))

PollInActions == RunEffectIn(ActionEnvs) \/ LsofReturnsFrom(ActionLsofOutputs)

NextActions ==
    \/ PollInActions \/ PsReturns \/ Revalidate
    \/ OpenBrowser \/ KillProcess \/ OpenRepo \/ HandlerResumes

SpecActions == Init /\ [][NextActions]_vars

SpecResolve == InitResolve /\ [][NextResolve]_vars

\* ------------------------------------------------------------------------
\* filterComponents alone
\* ------------------------------------------------------------------------
MaxComponents == 2

LitBase == <<"b", "a", "s", "e">>
LitProse == <<"p", "r", "o", "s", "e">>

\* ComponentItem
Item(name, type, camelCaseName) == [name |-> name, type |-> type, camelCaseName |-> camelCaseName]

ItemButtonGroup == Item(<<"b", "u", "t", "t", "o", "n", "-", "g", "r", "o", "u", "p">>, LitBase, <<"b", "u", "t", "t", "o", "n", "G", "r", "o", "u", "p">>)
ItemBadge == Item(<<"b", "a", "d", "g", "e">>, LitBase, <<"b", "a", "d", "g", "e">>)
ItemH1 == Item(<<"h", "1">>, LitProse, <<"h", "1">>)
Items == {ItemButtonGroup, ItemBadge, ItemH1}

SearchTexts == {<<>>, <<"N", "G">>, <<"n", "-", "g">>, <<"B">>, <<"H", "1">>, <<"z">>}
SelectedTypes == {None, Some(<<>>), Some(LitBase), Some(LitProse)}

\* selectedType && ...: null and "" are falsy
TypeSelected(selected) == selected.some /\ selected.val # <<>>

\* the callback of components.filter
MutKeepsByNameOnly(component, search, selected) ==
    IF TypeSelected(selected) /\ component.type # selected.val THEN FALSE
    ELSE IF search # <<>>
         THEN Includes(ToLowerCase(component.name), ToLowerCase(search))
         ELSE TRUE
Keeps(component, search, selected) ==
    IF TypeSelected(selected) /\ component.type # selected.val THEN FALSE
    ELSE IF search # <<>>
         THEN \/ Includes(ToLowerCase(component.name), ToLowerCase(search))
              \/ Includes(ToLowerCase(component.camelCaseName), ToLowerCase(search))
         ELSE TRUE

\* Array.prototype.filter: a new array of the elements the callback keeps
RECURSIVE FilterFrom(_, _, _, _)
FilterFrom(list, k, search, selected) ==
    IF k > Len(list) THEN <<>>
    ELSE IF Keeps(list[k], search, selected)
         THEN <<list[k]>> \o FilterFrom(list, k + 1, search, selected)
         ELSE FilterFrom(list, k + 1, search, selected)

FilterComponents(list, search, selected) == FilterFrom(list, 1, search, selected)

InitFilter ==
    /\ InitPoll
    /\ command = <<>>
    /\ inferred = None
    /\ system = IdleEnv
    /\ resolved = None
    /\ NoAction
    /\ components \in TextsUpTo(Items, MaxComponents)
    /\ searchText \in SearchTexts
    /\ selectedType \in SelectedTypes
    /\ filtered = None
    /\ again = None

\* filterComponents(components, searchText, selectedType)
Filter ==
    /\ filtered = None
    /\ filtered' = Some(FilterComponents(components, searchText, selectedType))
    /\ UNCHANGED <<components, searchText, selectedType, again>>
    /\ UNCHANGED <<pollVars, inferVars, resolveVars, actionVars>>

\* filterComponents(the list it returned, searchText, selectedType)
FilterAgain ==
    /\ filtered.some
    /\ again = None
    /\ again' = Some(FilterComponents(filtered.val, searchText, selectedType))
    /\ UNCHANGED <<components, searchText, selectedType, filtered>>
    /\ UNCHANGED <<pollVars, inferVars, resolveVars, actionVars>>

NextFilter == Filter \/ FilterAgain

SpecFilter == InitFilter /\ [][NextFilter]_vars

\* ------------------------------------------------------------------------
\* Properties
\* ------------------------------------------------------------------------
Keys == DOMAIN processDetails
ActivePids == PidSet(nuxtProcesses)

\* C1 (as claimed): in every reachable state, also between a poll and the
\* reconcile that follows it, the keys of the store are the pids of the
\* matched-process list.
C1_KeysMatchInEveryState == Keys = ActivePids

\* C1 (amended): whenever the reconcile effect is not pending, the keys of
\* the store are exactly the pids of the most recent matched-process list.
C1_KeysMatchAfterReconcile == ~EffectPending => Keys = ActivePids

C1_Witness == ~EffectPending /\ reconciled = Some(ActivePids) /\ Cardinality(Keys) = 2

\* C2: a reconcile run with the pid set of the previous run makes no
\* getProjectInfo call and leaves the store as it is, key for key and value
\* for value.
C2_ReconcileIdempotent ==
    [][(EffectPending /\ reconciled = Some(ActivePids))
          => (processDetails' = processDetails /\ calls' = calls)]_vars

C2_Witness ==
    /\ EffectPending
    /\ reconciled = Some(ActivePids)
    /\ Keys # {}
    /\ \E p \in Keys : calls[p] = 1

\* C3: a reconcile run drops the entry of every stored pid that is absent
\* from the matched-process list, and empties the store when the list is
\* empty.
C3_StaleEntriesRemoved ==
    [][EffectPending
          => /\ \A p \in Keys : p \notin ActivePids => p \notin DOMAIN processDetails'
             /\ Len(nuxtProcesses) = 0 => processDetails' = EmptyMap]_vars

C3_Witness == EffectPending /\ \E p \in Keys : p \notin ActivePids

\* C4: getProjectInfo is called at most once per pid per appearance, and
\* exactly once by the time the reconcile of the appearance has run; also
\* for a pid listed twice and for a call that returned the empty result.
C4_OneCallPerAppearance ==
    /\ \A p \in DOMAIN calls : calls[p] <= 1
    /\ ~EffectPending => \A p \in ActivePids : p \in DOMAIN calls /\ calls[p] = 1

C4_Witness ==
    /\ ~EffectPending
    /\ \E i, j \in 1..Len(nuxtProcesses) :
          /\ i < j
          /\ nuxtProcesses[i].pid = nuxtProcesses[j].pid
          /\ processDetails[nuxtProcesses[i].pid] = EmptyDetails
          /\ calls[nuxtProcesses[i].pid] = 1

\* C5: a reconcile run with a changed pid set leaves the details of every
\* pid that is both stored and listed exactly as they were.
C5_KeptEntriesUnchanged ==
    [][(EffectPending /\ Keys # ActivePids)
          => \A p \in Keys \cap ActivePids :
                p \in DOMAIN processDetails' /\ processDetails'[p] = processDetails[p]]_vars

C5_Witness == EffectPending /\ Keys # ActivePids /\ Keys \cap ActivePids # {}

\* the resource query of an environment succeeds and prints both fields
QueryPrintsBoth(ps) == ps.ok /\ Len(NonEmptyParts(Trim(ps.out))) >= 2

\* C6: the memory and cpu stored for a pid are present whenever the
\* resource query succeeds, whether or not a directory was resolved.
C6_SampledWheneverQuerySucceeds ==
    \A p \in Keys :
        QueryPrintsBoth(envOf[p].ps) => processDetails[p].memory.some /\ processDetails[p].cpu.some

\* a stored pid without a directory whose resource query prints both fields
C6_Witness ==
    \E p \in Keys : ~processDetails[p].cwd.some /\ QueryPrintsBoth(envOf[p].ps)

\* the pid is one of the whitespace-delimited tokens of the line
HasToken(tokens, pid) == \E k \in 1..Len(tokens) : tokens[k] = pid
PidIsToken(psLine, pid) == HasToken(SplitWs(psLine), pid)

\* some line of the table holds the pid as a token, and a keyword
TokenLineExists(psLines, pid) ==
    \E j \in 1..Len(psLines) : PidIsToken(psLines[j], pid) /\ HasKeyword(psLines[j])

\* the pids of the port-scan lines that carry a pid and a port
IsCandidateParts(parts) == Len(parts) >= 2 /\ PortMatch(parts[2]).some
CandidateLines(lines) == {k \in 1..Len(lines) : IsCandidateParts(SplitWs(Trim(lines[k])))}
FirstToken(tokens) == tokens[1]
CandidatePids(lsof) ==
    IF ~lsof.some THEN {}
    ELSE {FirstToken(SplitWs(Trim(lsof.val[k]))) : k \in CandidateLines(lsof.val)}

\* C7: with a non-empty process table, a candidate of the port scan is
\* listed if and only if some line of the table holds its pid as a whole
\* whitespace-delimited token, and one of the keywords.
C7_ListedIffPidToken ==
    TextTruthy(psData)
       => \A pid \in CandidatePids(lsofData) :
             pid \in ActivePids <=> TokenLineExists(psData.val, pid)

\* a candidate whose pid is only a part of a longer pid of the table
C7_Witness ==
    /\ TextTruthy(psData)
    /\ \E pid \in CandidatePids(lsofData) :
          /\ ~TokenLineExists(psData.val, pid)
          /\ \E j \in 1..Len(psData.val) : Includes(psData.val[j], pid)

\* C8: the placeholder default is applied only while the process-table text
\* is unavailable; when the scan returned with empty output, no candidate is
\* listed.
C8_EmptyTableListsNothing ==
    (psData.some /\ ~TextTruthy(psData)) => Len(nuxtProcesses) = 0

\* the scan returned empty output while the port scan has a candidate
C8_Witness ==
    psData.some /\ ~TextTruthy(psData) /\ CandidatePids(lsofData) # {}

\* all trailing slashes removed
RECURSIVE StripTrailingSlashes(_)
StripTrailingSlashes(p) ==
    IF p # <<>> /\ p[Len(p)] = "/" THEN StripTrailingSlashes(SubSeq(p, 1, Len(p) - 1)) ELSE p

MatchedBy(rules, s) == {r \in rules : PatternMatch(r, s).some}
ExplicitRules == {"nuxiC", "npmPrefix"}
GenericRules == {"nodeModules", "dotNuxt"}
BothKindsMatch(s) == MatchedBy(ExplicitRules, s) # {} /\ MatchedBy(GenericRules, s) # {}

\* the result is the capture of one of the rules, up to trailing slashes
IsCaptureOf(result, rules, s) ==
    /\ result.some
    /\ \E r \in rules :
          StripTrailingSlashes(PatternMatch(r, s).val) = StripTrailingSlashes(result.val)

\* C9: for every command line matched by both an explicit-flag rule and a
\* generic path rule, the inferred directory is the one captured by the
\* explicit-flag rule.
C9_ExplicitFlagFirst ==
    (inferred.some /\ BothKindsMatch(command))
       => IsCaptureOf(inferred.val, MatchedBy(ExplicitRules, command), command)

\* inference has run on a command matched by rules of both kinds
C9_Witness == inferred.some /\ BothKindsMatch(command)

\* the token after the first token equal to the flag
FlagPositions(tokens, flag) == {k \in 1..(Len(tokens) - 1) : tokens[k] = flag}
PathAfter(tokens, positions) == tokens[Min(positions) + 1]
HasFlagC(s) == FlagPositions(SplitWs(s), LitFlagC) # {}
FlagCPath(s) == PathAfter(SplitWs(s), FlagPositions(SplitWs(s), LitFlagC))

\* C10: for every command line that contains the tokens -C <path>, inference
\* yields <path> without trailing slashes, whatever precedes the flag and
\* however many slashes <path> ends with.
C10_FlagCYieldsPath ==
    (inferred.some /\ HasFlagC(command))
       => inferred.val = Some(StripTrailingSlashes(FlagCPath(command)))

\* inference has run on a command with -C <path>, the path written with
\* two trailing slashes
C10_Witness ==
    /\ inferred.some
    /\ HasFlagC(command)
    /\ FlagCPath(command) = WithSlashes(PathProj, 2)

\* the sub-steps of a resolution that succeeded, read off the environment
ManifestParsed(e) == e.manifest.exists /\ e.manifest.parses
OriginReadable(e) == e.git \in {GitOrigin, GitOriginCrlf}

\* C11: getProjectInfo returns, for every combination of failing sub-steps,
\* a value that holds every field whose own sub-step succeeded: the
\* directory when it was found, the project info when a directory was found
\* and the manifest parsed, memory and cpu when the resource query succeeded.
C11_EverySucceededFieldPresent ==
    resolved.some
       => /\ (InferCwd(command).some \/ LsofCwd(system.cwdLookup).some) => resolved.val.cwd.some
          /\ (resolved.val.cwd.some /\ ManifestParsed(system)) => resolved.val.projectInfo.some
          /\ QueryPrintsBoth(system.ps) => resolved.val.memory.some /\ resolved.val.cpu.some

\* a resolution without a directory whose resource query succeeded
C11_Witness ==
    resolved.some /\ ~resolved.val.cwd.some /\ QueryPrintsBoth(system.ps)

\* the manifest parsed and holds no repository URL: the field is absent,
\* empty, or an object without a url member
LacksRepositoryUrl(e) ==
    /\ ManifestParsed(e)
    /\ e.manifest.json.repository \in {JUndef, JStr(<<>>), JObj(JUndef)}

\* the rest of the project info is the manifest's
KeepsNameAndVersion(info, e) ==
    info.name = e.manifest.json.name /\ info.version = e.manifest.json.version

\* C12: when the manifest parsed without a repository URL, the resolved
\* repository is the trimmed url of the [remote "origin"] block of
\* .git/config; when the config is missing, unreadable or has no such block
\* the repository stays absent; name and version are kept either way.
C12_OriginUrlFallback ==
    (resolved.some /\ resolved.val.cwd.some /\ LacksRepositoryUrl(system))
       => /\ resolved.val.projectInfo.some
          /\ KeepsNameAndVersion(resolved.val.projectInfo.val, system)
          /\ IF OriginReadable(system)
             THEN resolved.val.projectInfo.val.repository = JStr(UrlSsh)
             ELSE ~Truthy(resolved.val.projectInfo.val.repository)

\* a resolution in a directory whose manifest has a repository object
\* without url, next to a .git/config with an origin url
C12_Witness ==
    /\ resolved.some
    /\ resolved.val.cwd.some
    /\ system.manifest = ManifestObjNoUrl
    /\ OriginReadable(system)

UrlHttps == <<"h", "t", "t", "p", "s", ":", "/", "/", "g", "i", "t", "h", "u", "b", ".", "c", "o", "m", "/", "a", "/", "b">>
UrlHttpsOtherHost == <<"h", "t", "t", "p", "s", ":", "/", "/", "g", "i", "t", "l", "a", "b", ".", "c", "o", "m", "/", "a", "/", "b">>
LitHttps == <<"h", "t", "t", "p", "s", ":", "/", "/">>

\* the url the Open GitHub Repo item opened for the resolved repository
OpenedFor(url) ==
    /\ action.some
    /\ action.val.target.some
    /\ resolved.val.projectInfo.val.repository = JStr(url)

\* C13: the url that is opened has a leading git+ stripped, an SSH
\* shorthand git@<host>:<owner>/<repo> rewritten to
\* https://<host>/<owner>/<repo> and a trailing .git removed; every SSH
\* shorthand is opened as an https:// url.
C13_NormalizedUrlOpened ==
    /\ OpenedFor(UrlGitPlus) => action.val.target.val = UrlHttps
    /\ OpenedFor(UrlSsh) => action.val.target.val = UrlHttps
    /\ OpenedFor(UrlSshOtherHost) => action.val.target.val = UrlHttpsOtherHost
    /\ \A url \in {UrlGitPlus, UrlSsh, UrlSshOtherHost} :
          (OpenedFor(url) /\ StartsWith(StripGitPlus(url), LitGitAt))
             => StartsWith(action.val.target.val, LitHttps)

\* the repository of a host other than github.com, in SSH shorthand, opened
C13_Witness == OpenedFor(UrlSshOtherHost)

\* the pid has a Stop Server item in the menu
InMenu(menu, pid) ==
    \E k \in 1..Len(menu) : \E j \in 1..Len(menu[k].stop) : menu[k].stop[j] = pid

\* memory and cpu are both there or both missing, and missing when the
\* resource query failed
SampleOfFailedQuery(details, ps) ==
    /\ details.memory.some <=> details.cpu.some
    /\ ~ps.ok => ~details.memory.some /\ ~details.cpu.some

\* C14: when the resource query fails for a newly listed process, the
\* resolution returns with memory and cpu both absent, the pid gets its
\* entry in the store at the reconcile and stays in the menu; memory and cpu
\* are always both present or both absent.
C14_FailedSampleKeepsEntry ==
    /\ \A p \in Keys : SampleOfFailedQuery(processDetails[p], envOf[p].ps)
    /\ ~EffectPending => \A p \in ActivePids : p \in Keys /\ InMenu(Menu, p)

\* a listed pid, resolved in a directory while its resource query failed
C14_Witness ==
    /\ ~EffectPending
    /\ \E p \in ActivePids :
          /\ p \in Keys
          /\ ~envOf[p].ps.ok
          /\ processDetails[p].cwd.some


\* ------------------------------------------------------------------------
\* C15, C16: the menu actions
\* ------------------------------------------------------------------------
KillSucceeded(did) == did.some /\ did.val.kind = "kill" /\ did.val.ok

\* the step is the end of a handler
HandlerEnds == Len(handlers') < Len(handlers)

\* the step is the end of a Stop Server whose kill succeeded
StopsServer == HandlerEnds /\ KillSucceeded(action')

\* the pid is on a line of the scan that names a listening port
ScanReports(scan, pid) == pid \in PidSet(ComputeNuxtProcesses(scan, None))

\* after the stop a scan has returned without the pid, and the reconcile
\* after it has run
StoppedAndGone(did) ==
    /\ KillSucceeded(did)
    /\ ~lsofLoading
    /\ ~EffectPending
    /\ ~ScanReports(lsofData, did.val.target.val)

StoppedServerRemoved(did) ==
    StoppedAndGone(did) =>
        (/\ did.val.target.val \notin DOMAIN processDetails
         /\ ~InMenu(Menu, did.val.target.val))

EntryDroppedOnlyWhenUnlisted(before, after, listed) ==
    \A pid \in DOMAIN before : pid \notin DOMAIN after => pid \notin listed

\* C15 (as claimed): a Stop Server whose kill succeeds ends with a port scan started and
\* leaves the list and the store as they are; an entry leaves the store only in a step
\* in which the list does not hold its pid; and once the scan has returned
\* without the pid and the reconcile has run, the pid is neither in the store
\* nor in the menu.
C15_StopThenPollRemoves ==
    /\ [][/\ StopsServer =>
               (lsofLoading' /\ UNCHANGED <<nuxtProcesses, processDetails>>)
          /\ EntryDroppedOnlyWhenUnlisted(processDetails, processDetails',
                                          PidSet(nuxtProcesses))]_vars
    /\ []StoppedServerRemoved(action)

\* a server was stopped while another one ran; the following scan and
\* reconcile removed the entry of the stopped one and kept the other
C15_Witness ==
    /\ StoppedAndGone(action)
    /\ reconciled = Some(PidSet(nuxtProcesses))
    /\ Cardinality(DOMAIN processDetails) = 1

ActionFailed(did) == did.some /\ ~did.val.ok

FailureToasts(toasts) == {i \in 1..Len(toasts) : toasts[i] = "failure"}

NoSuccessToast(toasts) == \A i \in 1..Len(toasts) : toasts[i] # "success"

\* C16: a menu action whose open or kill fails has shown exactly one failure
\* toast and no success toast when it ends, and has not called revalidate;
\* and every step of a handler, other than the end of a Stop Server whose
\* kill succeeded, leaves the scans, the list and the store as they are.
C16_FailedActionOnlyNotifies ==
    [][/\ (HandlerEnds /\ ActionFailed(action')) =>
             (/\ Cardinality(FailureToasts(action'.val.toasts)) = 1
              /\ NoSuccessToast(action'.val.toasts)
              /\ ~action'.val.repoll)
       /\ (handlers' # handlers /\ ~StopsServer) => UNCHANGED pollVars]_vars

\* a stop failed for a server that has an entry, and the entry is still there
C16_Witness ==
    /\ ActionFailed(action)
    /\ action.val.kind = "kill"
    /\ action.val.target.val \in DOMAIN processDetails
    /\ InMenu(Menu, action.val.target.val)



\* ------------------------------------------------------------------------
\* C17: Refresh
\* ------------------------------------------------------------------------
\* C17 (as claimed): a step that starts a port scan, as Refresh does, starts
\* a process-table scan too.
C17_RefreshRerunsBothScans ==
    [][(~lsofLoading /\ lsofLoading') => psLoading']_vars

\* a refresh was asked for after the process-table scan had returned: the
\* port scan runs again, the process-table scan does not
C17_Witness == lsofLoading /\ lsofData.some /\ psData.some /\ ~psLoading

\* ------------------------------------------------------------------------
\* C18: the fallback view
\* ------------------------------------------------------------------------
\* the resolution of the listed process found no directory, whichever of
\* its two possible command lines it was given
NoDirectoryFound(proc, e) ==
    /\ ~ResolveCwd(proc.command, e).some
    /\ ~ResolveCwd(Placeholder \o proc.port, e).some

EntryOfPort(menu, port) == menu[CHOOSE k \in 1..Len(menu) : menu[k].port = port]

FallbackView(entry) ==
    /\ entry.title = JStr(LitPortTitle \o entry.port)
    /\ ~entry.version.some
    /\ ~entry.memory.some
    /\ ~entry.cpu.some

StopsEveryProcess(entry, procs) ==
    /\ entry.openBrowser = entry.port
    /\ \A i \in 1..Len(procs) :
          procs[i].port = entry.port =>
              \E j \in 1..Len(entry.stop) : entry.stop[j] = procs[i].pid

NameOrPort(entry, details) ==
    IF details.projectInfo.some /\ Truthy(details.projectInfo.val.name)
    THEN entry.title = details.projectInfo.val.name
    ELSE entry.title = JStr(LitPortTitle \o entry.port)

FallbackOf(proc, store, envs, entry, procs) ==
    /\ (proc.pid \in DOMAIN store /\ NoDirectoryFound(proc, envs[proc.pid])) =>
          (store[proc.pid] = EmptyDetails /\ FallbackView(entry))
    /\ StopsEveryProcess(entry, procs)

FirstOnPort(procs, i) == \A j \in 1..(i - 1) : procs[j].port # procs[i].port

FallbackForAll(procs, store, envs, menu) ==
    \A i \in 1..Len(procs) :
        FallbackOf(procs[i], store, envs, EntryOfPort(menu, procs[i].port), procs)

FallbackForFirst(procs, store, envs, menu) ==
    \A i \in 1..Len(procs) :
        /\ StopsEveryProcess(EntryOfPort(menu, procs[i].port), procs)
        /\ FirstOnPort(procs, i) =>
              /\ FallbackOf(procs[i], store, envs, EntryOfPort(menu, procs[i].port), procs)
              /\ NameOrPort(EntryOfPort(menu, procs[i].port),
                            DetailsGet(store, procs[i].pid))

\* C18 (as claimed): for every listed process whose resolution found no
\* directory the stored details are empty and the menu entry of its port has
\* the title 'Port N' and no version, memory or cpu row, with Open in
\* Browser for the port and a Stop Server item for every process on it.
C18_FallbackViewForEveryProcess ==
    FallbackForAll(nuxtProcesses, processDetails, envOf, Menu)

\* C18 (amended): the same for the first listed process of each port, whose
\* details the menu entry of the port shows: its title is the project name
\* of that process when it has one and 'Port N' otherwise; Open in Browser
\* and a Stop Server item for every process on the port are always there.
C18_FallbackViewOfFirstOnPort ==
    FallbackForFirst(nuxtProcesses, processDetails, envOf, Menu)

\* a process without a directory is the only one on its port, next to a
\* port whose title is a project name
C18_Witness ==
    /\ ~EffectPending
    /\ Len(Menu) = 2
    /\ \E i \in 1..2 :
          /\ NoDirectoryFound(nuxtProcesses[i], envOf[nuxtProcesses[i].pid])
          /\ Menu[i].title = JStr(LitPortTitle \o nuxtProcesses[i].port)
          /\ Menu[3 - i].title = JStr(NameX)



\* ------------------------------------------------------------------------
\* C19: the port scanner
\* ------------------------------------------------------------------------
\* the scan has not returned, or it printed nothing but blank lines
NoScanOutput(scan) == ~scan.some \/ \A k \in 1..Len(scan.val) : IsBlank(scan.val[k])

\* the line has a pid field and an address field that holds ':<digits>'
WellFormed(line) == IsCandidateParts(SplitWs(Trim(line)))

\* the scan without its malformed lines
WellFormedOnly(scan) == Some(SelectSeq(scan.val, WellFormed))

SkipsMalformed(procs, scan, table) ==
    scan.some => procs = ComputeNuxtProcesses(WellFormedOnly(scan), table)

\* C19: when the port scan has failed or printed nothing the matched list is
\* empty, and the store is empty once the reconcile has run; the matched
\* list is the one the scan output gives with every malformed line (fewer
\* than two fields, or an address without ':<digits>') taken out.
C19_ScanNeverFails ==
    /\ NoScanOutput(lsofData) => nuxtProcesses = <<>>
    /\ (NoScanOutput(lsofData) /\ ~EffectPending) => processDetails = EmptyMap
    /\ SkipsMalformed(nuxtProcesses, lsofData, psData)

\* a malformed line comes first and the line after it is listed and stored
C19_Witness ==
    /\ ~EffectPending
    /\ lsofData.some
    /\ Len(lsofData.val) = 2
    /\ ~WellFormed(lsofData.val[1])
    /\ Len(nuxtProcesses) = 1
    /\ Keys = ActivePids



\* ------------------------------------------------------------------------
\* C20: the order of arrival of the two scans
\* ------------------------------------------------------------------------
\* both scans have returned, the process table has lines, and the reconcile
\* has run
BothArrived ==
    /\ lsofData.some
    /\ TextTruthy(psData)
    /\ ~EffectPending

\* the entry is the one the resolver gives for the listed command line
FromListedCommand(proc, store, envs) ==
    store[proc.pid] = GetProjectInfo(proc.pid, proc.command, envs[proc.pid])

\* the entry is the one the resolver gives for the placeholder command
FromPlaceholder(proc, store, envs) ==
    store[proc.pid] = GetProjectInfo(proc.pid, Placeholder \o proc.port, envs[proc.pid])

AllFromListedCommand(procs, store, envs) ==
    \A i \in 1..Len(procs) :
        procs[i].pid \in DOMAIN store => FromListedCommand(procs[i], store, envs)

\* C20 (as claimed): once both scans have returned, the entry of every
\* listed pid is the one the resolver gives for the command line taken from
\* the process table, in whichever order the scans returned.
C20_StoredFromTableCommand ==
    BothArrived => AllFromListedCommand(nuxtProcesses, processDetails, envOf)

\* the port scan returned first: the entry of a pid was resolved once, from
\* the placeholder command, and differs from the one its command line gives
C20_Witness ==
    /\ BothArrived
    /\ \E i \in 1..Len(nuxtProcesses) :
          /\ nuxtProcesses[i].pid \in Keys
          /\ calls[nuxtProcesses[i].pid] = 1
          /\ FromPlaceholder(nuxtProcesses[i], processDetails, envOf)
          /\ ~FromListedCommand(nuxtProcesses[i], processDetails, envOf)



\* ------------------------------------------------------------------------
\* C21: filterComponents
\* ------------------------------------------------------------------------
SameLetter(a, b) == LowerChar(a) = LowerChar(b)

\* sub occurs in s, letter case apart
ContainsIgnoringCase(s, sub) ==
    \E i \in 1..(Len(s) - Len(sub) + 1) :
        \A j \in 1..Len(sub) : SameLetter(s[i + j - 1], sub[j])

\* (a) and (b) of the claim
TypeWanted(component, selected) ==
    (selected # None /\ selected.val # <<>>) => component.type = selected.val
TextWanted(component, search) ==
    search # <<>> =>
        \/ ContainsIgnoringCase(component.name, search)
        \/ ContainsIgnoringCase(component.camelCaseName, search)
Wanted(component) ==
    TypeWanted(component, selectedType) /\ TextWanted(component, searchText)

FilteredAsWanted(result) ==
    /\ result = SelectSeq(components, Wanted)
    /\ (searchText = <<>> /\ selectedType = None) => result = components

\* C21: the list filterComponents returns holds, in input order, exactly
\* the components whose type is the selected one (when one is selected) and
\* whose name or camelCaseName contains the search text, letter case apart
\* (when there is one); it is the whole input when there is neither; the
\* input is left as it was; and filtering the returned list again with the
\* same arguments returns the same list.
C21_FilterExactlyWanted ==
    /\ [](filtered.some => FilteredAsWanted(filtered.val))
    /\ [](again.some => again.val = filtered.val)
    /\ [][components' = components]_vars

\* of two components of the selected type, the one kept matched the search
\* text by its camelCaseName alone, and filtering again changed nothing
C21_Witness ==
    /\ again.some
    /\ components = <<ItemBadge, ItemButtonGroup>>
    /\ selectedType = Some(LitBase)
    /\ ~ContainsIgnoringCase(ItemButtonGroup.name, searchText)
    /\ filtered.val = <<ItemButtonGroup>>


==========================================================================
